---- MODULE Spec2Model ----
(***************************************************************************)
(* A model of src/utils.py: the time-based dataset splitters, the k-fold   *)
(* generator, leave-one-out masking, precision@k, MRR and the weighted MRR *)
(* of the hierarchical recommender evaluation helpers.                     *)
(*                                                                         *)
(* Each function of utils.py is an action that models one whole call.      *)
(* Every group of functions has its own specification (SpecSplit,          *)
(* SpecKFold, SpecMask, SpecEval, SpecMrr, SpecWeighted); the variables of *)
(* the other groups stay at their initial, idle value. The functions are   *)
(* stateless, so a behaviour of the splitters, of the metrics and of        *)
(* _mrr_func is one call on the inputs drawn by the initial state.         *)
(***************************************************************************)
EXTENDS Integers, Sequences, FiniteSets, TLC

VARIABLES
    \* ---- three_way_split / two_way_split ----
    df,              \* the caller's table: a sequence of rows [id, timestamp]
    split_call,      \* the arguments of the call made, or [op |-> "none"]
    df_sorted,       \* the local df after df.sort_values([timestamp_col])
    train,           \* first returned partition
    validation,      \* second returned partition (three_way_split only)
    test,            \* last returned partition
    split_outcome,   \* "none", "returned" or the exception raised
    \* ---- generate_k_fold_split_datasets (original is df) ----
    kf_k,            \* the argument k, or -1 before the call
    kf_pc,           \* "idle", "loop", "returned" or the exception raised
    kf_done,         \* iterations of the for loop completed
    kf_ratios,       \* the (train_frac, val_frac, test_frac) drawn, per fold
    k_folds          \* the list of [train, validation, test] built so far

splitVars == <<df, split_call, df_sorted, train, validation, test, split_outcome>>

kfoldVars == <<kf_k, kf_pc, kf_done, kf_ratios, k_folds>>

VARIABLES
    \* ---- set_to_zero ----
    heap,            \* the numpy arrays alive: reference -> contents
    caller_row,      \* the reference the caller holds and passes as row
    mask_call,       \* the arguments of the last call, or [op |-> "none"]
    mask_before,     \* contents of the caller's array when the call was made
    mask_result      \* the reference returned by the last call (0: none yet)

maskVars == <<heap, caller_row, mask_call, mask_before, mask_result>>

VARIABLES
    \* ---- _mrr_func ----
    user_top_k_recommendations,  \* ranked column indices (0-based)
    user_testset,                \* the 0/1 test row
    mrr_call,                    \* "none" or "_mrr_func"
    mrr_result                   \* the value returned, a rational <<num, den>>

mrrVars == <<user_top_k_recommendations, user_testset, mrr_call, mrr_result>>

VARIABLES
    \* ---- weighted_mrr ----
    mrr_levels,      \* <<mrr_items, mrr_tags, mrr_categories>>, in 1/MrrDen
    w_call,          \* "none", "lambdas passed" or "lambdas omitted"
    w_lambdas,       \* the value bound to the parameter lambdas, in tenths
    w_result         \* the tuple returned, in 1/(10 * MrrDen)

weightedVars == <<mrr_levels, w_call, w_lambdas, w_result>>

VARIABLES
    \* ---- get_precision / get_taxonomy_level_mrr ----
    pred_y,          \* the prediction matrix, a sequence of rows of scores
    train_x,         \* the binarized train matrix
    test_x,          \* the binarized test matrix
    eval_call,       \* [op, k] of the call made, or [op |-> "none"]
    eval_outcome,    \* "none", "returned" or the exception raised
    eval_rows_done,  \* rows whose metric was computed when the call ended
    eval_recs,       \* per row, the ranked columns handed to the metric
    eval_value       \* the value returned, a rational <<num, den>>

evalVars == <<pred_y, train_x, test_x, eval_call, eval_outcome, eval_rows_done,
              eval_recs, eval_value>>

-----------------------------------------------------------------------------
(* Bounds *)

MaxRows == 3      \* most rows of a table
MaxTs == 2        \* timestamps are drawn from 1..MaxTs (ties happen)
FracBits == 2     \* split fractions are multiples of 1 / 2^FracBits
MaxK == 2         \* most folds asked of generate_k_fold_split_datasets
MaxMaskCols == 4  \* most columns of a row given to set_to_zero
MaxTopK == 3      \* most entries of a ranked list given to _mrr_func
MrrCols == 3      \* columns of the test row given to _mrr_func
MrrDen == 2       \* per-level MRR values are multiples of 1 / MrrDen
MaxLambda == 5    \* lambdas are tenths 0 .. MaxLambda
MaxUsers == 2     \* most rows of a matrix given to a metric
MaxCols == 3      \* most columns of a matrix given to a metric
MaxCells == 3     \* most cells (rows * columns) of such a matrix
MaxScore == 1     \* prediction scores are drawn from -1 .. MaxScore
MaxTopN == 2      \* k of precision@k and MRR@k is drawn from 1 .. MaxTopN

-----------------------------------------------------------------------------
(* Helpers shared by the operations *)

Min(a, b) == IF a < b THEN a ELSE b
Max(a, b) == IF a > b THEN a ELSE b

\* Python's int() of the quotient num/den (den > 0): truncation toward zero.
PyInt(num, den) ==
    IF num >= 0 THEN num \div den ELSE -((-num) \div den)

\* A slice bound as Python / pandas .iloc resolves it against a length n:
\* negative bounds count from the end, everything is clamped into 0..n.
SliceBound(i, n) == IF i < 0 THEN Max(i + n, 0) ELSE Min(i, n)

\* s[lo:hi] for a sequence s (0-based, hi exclusive), as .iloc[lo:hi].
PySlice(s, lo, hi) ==
    SubSeq(s, SliceBound(lo, Len(s)) + 1, SliceBound(hi, Len(s)))

\* s[:hi] and s[lo:]
PySliceTo(s, hi) == PySlice(s, 0, hi)
PySliceFrom(s, lo) == PySlice(s, lo, Len(s))

SeqToSet(s) == {s[i] : i \in 1..Len(s)}

-----------------------------------------------------------------------------
(* three_way_split, two_way_split *)

\* A fraction is an exact rational <<num, den>>, den > 0.
Num(f) == f[1]
Den(f) == f[2]

\* The fractions the callers of SpecSplit pass are multiples of 1/FracDen.
\* FracDen is a power of two, so each of them, the sum of two of them and
\* the product with a row count are exact doubles: int(N * frac) in the code
\* is PyInt(N * num, den), with no rounding in between.
FracDen == 2 ^ FracBits

\* The fractions inside (0,1) and, around them, zero, one, negative
\* fractions and fractions above one.
Fractions == {<<n, FracDen>> : n \in (-(FracDen \div 2)) .. (FracDen + FracDen \div 2)}

\* pd.to_datetime of a timestamp cell: an int64 epoch number becomes the
\* datetime64 of the same instant, a datetime64 stays what it is.
ToDatetime(cell) == [dtype |-> "datetime64", ns |-> cell.ns]

\* df[timestamp_col] = pd.to_datetime(df[timestamp_col]): the column of the
\* caller's table is replaced.
ParseTimestamps(table) ==
    [i \in 1..Len(table) |-> [table[i] EXCEPT !.timestamp = ToDatetime(@)]]

\* df.sort_values([timestamp_col]): every ascending arrangement of the rows.
\* The default sort kind is quicksort, which is not stable, so rows with
\* equal timestamps may come out in any order.
RECURSIVE SortValues(_)
SortValues(rows) ==
    IF rows = {} THEN {<<>>}
    ELSE LET firsts == {r \in rows :
                          \A q \in rows : r.timestamp.ns <= q.timestamp.ns}
         IN UNION {{<<r>> \o rest : rest \in SortValues(rows \ {r})} : r \in firsts}

\* The double sum val_frac + train_frac of two tenths can fall one ulp below
\* the exact sum, and N times it just below an integer: 0.1 + 0.7 is
\* 0.7999999999999999 and 5 * 0.7999999999999999 is 3.9999999999999996, so
\* int() yields 3 where the exact quotient is 4. Among the tenths that
\* generate_k_fold_split_datasets draws and tables of at most 8 rows this is
\* the only case. Dyadic fractions are exact.
DoubleShortfall(n, train_frac, val_frac) ==
    IF /\ Den(train_frac) = 10
       /\ <<n, Num(train_frac), Num(val_frac)>> \in {<<5, 7, 1>>}
    THEN 1 ELSE 0

\* anchor_train = int(df.shape[0] * train_frac)
anchor_train_off_by_one(n, train_frac) ==
    PyInt(n * Num(train_frac), Den(train_frac)) + 1

anchor_train(n, train_frac) == PyInt(n * Num(train_frac), Den(train_frac))

\* anchor_val = int(df.shape[0] * (val_frac + train_frac))
anchor_val(n, train_frac, val_frac) ==
    PyInt(n * (Num(val_frac) + Num(train_frac)), Den(train_frac))
        - DoubleShortfall(n, train_frac, val_frac)

\* Lines 35-37: the three .iloc slices of the sorted table.
ThreeWayParts(s, train_frac, val_frac) ==
    [train |-> PySliceTo(s, anchor_train(Len(s), train_frac)),
     validation |-> PySlice(s, anchor_train(Len(s), train_frac),
                               anchor_val(Len(s), train_frac, val_frac)),
     test |-> PySliceFrom(s, anchor_val(Len(s), train_frac, val_frac))]

\* Lines 57-58: the two .iloc slices of the sorted table.
TwoWayParts(s, train_frac) ==
    [train |-> PySliceTo(s, anchor_train(Len(s), train_frac)),
     test |-> PySliceFrom(s, anchor_train(Len(s), train_frac))]

\* The tables a caller can hold: N rows, row i carrying id i and an int64
\* epoch timestamp.
RawCells == [dtype : {"int64"}, ns : 1..MaxTs]

Tables == UNION {[1..n -> [id : 1..MaxRows, timestamp : RawCells]] : n \in 0..MaxRows}

InputTables == {t \in Tables : \A i \in 1..Len(t) : t[i].id = i}

NoCall == [op |-> "none"]

InitSplit ==
    /\ df \in InputTables
    /\ split_call = NoCall
    /\ df_sorted = <<>>
    /\ train = <<>>
    /\ validation = <<>>
    /\ test = <<>>
    /\ split_outcome = "none"

\* two_way_split(df, train_frac): lines 52-60. train_frac is not checked:
\* every call returns.
two_way_split(train_frac) ==
    /\ split_call = NoCall
    /\ df' = ParseTimestamps(df)
    /\ \E s \in SortValues(SeqToSet(df')) :
         /\ df_sorted' = s
         /\ train' = TwoWayParts(s, train_frac).train
         /\ test' = TwoWayParts(s, train_frac).test
    /\ validation' = <<>>
    /\ split_call' = [op |-> "two_way_split", train_frac |-> train_frac]
    /\ split_outcome' = "returned"

\* three_way_split(df, (train_frac, val_frac, test_frac)): lines 28-39.
\* test_frac is unpacked and never used; no fraction is checked.
three_way_split(train_frac, val_frac) ==
    /\ split_call = NoCall
    /\ df' = ParseTimestamps(df)
    /\ \E s \in SortValues(SeqToSet(df')) :
         /\ df_sorted' = s
         /\ train' = ThreeWayParts(s, train_frac, val_frac).train
         /\ validation' = ThreeWayParts(s, train_frac, val_frac).validation
         /\ test' = ThreeWayParts(s, train_frac, val_frac).test
    /\ split_call' = [op |-> "three_way_split", train_frac |-> train_frac,
                      val_frac |-> val_frac]
    /\ split_outcome' = "returned"

TwoWaySplit == \E f \in Fractions : two_way_split(f)
ThreeWaySplit == \E f \in Fractions, g \in Fractions : three_way_split(f, g)

-----------------------------------------------------------------------------
(* generate_k_fold_split_datasets *)

\* map(lambda r: r/10., range(3,10)): the tenths 0.3 .. 0.9
TrainFracChoices == {<<r, 10>> : r \in 3..9}

\* int((1.0 - train_frac) * 10) in double arithmetic. 1.0 - 0.8 is
\* 0.19999999999999996 and 1.0 - 0.9 is 0.09999999999999998, so the products
\* 1.9999999999999996 and 0.9999999999999998 truncate to 1 and 0; for 0.7 the
\* product is 3.0000000000000004 and for 0.3 .. 0.6 it is exact.
IntTenTimesRest(train_frac) ==
    (10 - Num(train_frac)) - (IF Num(train_frac) \in {8, 9} THEN 1 ELSE 0)

\* map(lambda r: r/10., range(1, int((1.0 - train_frac) * 10)))
ValFracChoices(train_frac) ==
    {<<r, 10>> : r \in 1..(IntTenTimesRest(train_frac) - 1)}

\* test_frac = 1.0 - train_frac
TestFrac(train_frac) == <<10 - Num(train_frac), 10>>

InitKFoldIdle ==
    /\ kf_k = -1
    /\ kf_pc = "idle"
    /\ kf_done = 0
    /\ kf_ratios = <<>>
    /\ k_folds = <<>>

\* Line 82: the call, with k_folds = [].
generate_k_fold_split_datasets(k) ==
    /\ kf_pc = "idle"
    /\ kf_k' = k
    /\ kf_pc' = "loop"
    /\ kf_done' = 0
    /\ kf_ratios' = <<>>
    /\ k_folds' = <<>>
    /\ UNCHANGED df

\* Lines 84-88: one iteration of for _ in xrange(k). np.random.choice of an
\* empty list raises ValueError; otherwise three_way_split(original, ...)
\* parses the timestamps of original, sorts and slices.
KFoldIteration ==
    /\ kf_pc = "loop"
    /\ kf_done < kf_k
    /\ \E train_frac \in TrainFracChoices :
         IF ValFracChoices(train_frac) = {}
         THEN /\ kf_pc' = "ValueError"
              /\ kf_ratios' = Append(kf_ratios, <<train_frac>>)
              /\ UNCHANGED <<df, kf_done, k_folds>>
         ELSE \E val_frac \in ValFracChoices(train_frac) :
                /\ df' = ParseTimestamps(df)
                /\ \E s \in SortValues(SeqToSet(df')) :
                     k_folds' = Append(k_folds, ThreeWayParts(s, train_frac, val_frac))
                /\ kf_ratios' = Append(kf_ratios,
                                       <<train_frac, val_frac, TestFrac(train_frac)>>)
                /\ kf_done' = kf_done + 1
                /\ kf_pc' = "loop"
    /\ UNCHANGED kf_k

\* Line 90: xrange(k) is exhausted (at once when k <= 0).
KFoldReturn ==
    /\ kf_pc = "loop"
    /\ kf_done >= kf_k
    /\ kf_pc' = "returned"
    /\ UNCHANGED <<df, kf_k, kf_done, kf_ratios, k_folds>>

KFoldCall == \E k \in 0..MaxK : generate_k_fold_split_datasets(k)

-----------------------------------------------------------------------------
(* set_to_zero *)

\* seed=42, the default of set_to_zero
DefaultSeed == 42

Seeds == {DefaultSeed, 0}

\* np.nonzero(row)[0]: the 0-based indices of the nonzero entries
NonZero(row) == {i - 1 : i \in {j \in 1..Len(row) : row[j] # 0}}

\* Python's any() over an array of indices: true iff some index is truthy,
\* that is, different from 0.
PyAny(indices) == \E i \in indices : i # 0

BinaryRows(n) == [1..n -> {0, 1}]

TheRow == 1

InitMask ==
    /\ \E n \in 1..MaxMaskCols : heap \in [{TheRow} -> BinaryRows(n)]
    /\ caller_row = TheRow
    /\ mask_call = NoCall
    /\ mask_before = <<>>
    /\ mask_result = 0

\* set_to_zero(row, seed): lines 138-142. The assignment row[...] = 0 writes
\* into the array the caller passed, and that same array is returned.
\* np.random.seed(seed); np.random.choice(zero_idx) picks one element of
\* zero_idx, fixed by the seed and the Mersenne Twister: any of them here.
set_to_zero(row, seed) ==
    LET zero_idx == NonZero(heap[row])
    IN /\ mask_call' = [op |-> "set_to_zero", seed |-> seed]
       /\ mask_before' = heap[row]
       /\ IF PyAny(zero_idx)
          THEN \E chosen \in zero_idx :
                 heap' = [heap EXCEPT ![row][chosen + 1] = 0]
          ELSE heap' = heap
       /\ mask_result' = row
       /\ UNCHANGED caller_row

SetToZero == \E seed \in Seeds : set_to_zero(caller_row, seed)

-----------------------------------------------------------------------------
(* Rationals, as pairs <<num, den>> in lowest terms *)

RECURSIVE GCD(_, _)
GCD(a, b) == IF b = 0 THEN a ELSE GCD(b, a % b)

Rat(num, den) ==
    IF num = 0 THEN <<0, 1>>
    ELSE <<num \div GCD(num, den), den \div GCD(num, den)>>

RatAdd(p, q) == Rat(p[1] * q[2] + q[1] * p[2], p[2] * q[2])

RatDivInt(p, n) == Rat(p[1], p[2] * n)

-----------------------------------------------------------------------------
(* _mrr_func *)

\* Lines 179-184: the scan from position `rank` (0-based) on. The value is
\* [outcome |-> "returned", value |-> mrr], or "IndexError" when an entry of
\* the list is no column of user_testset.
RECURSIVE mrr_scan_no_break(_, _, _, _)
mrr_scan_no_break(top_k, testset, rank, mrr) ==
    IF rank >= Len(top_k) THEN [outcome |-> "returned", value |-> mrr]
    ELSE IF top_k[rank + 1] >= Len(testset)
         THEN [outcome |-> "IndexError", value |-> mrr]
         ELSE mrr_scan_no_break(top_k, testset, rank + 1,
                  IF testset[top_k[rank + 1] + 1] = 1 THEN Rat(1, rank + 1) ELSE mrr)

RECURSIVE mrr_scan(_, _, _, _)
mrr_scan(top_k, testset, rank, mrr) ==
    IF rank >= Len(top_k) THEN [outcome |-> "returned", value |-> mrr]
    ELSE IF top_k[rank + 1] >= Len(testset)
         THEN [outcome |-> "IndexError", value |-> mrr]
         ELSE IF testset[top_k[rank + 1] + 1] = 1
              THEN [outcome |-> "returned", value |-> Rat(1, rank + 1)]
              ELSE mrr_scan(top_k, testset, rank + 1, mrr)

\* _mrr_func(user_top_k_recommendations, user_testset), with mrr = 0
mrr_func(top_k, testset) == mrr_scan(top_k, testset, 0, Rat(0, 1))

RankedLists == UNION {[1..n -> 0..(MrrCols - 1)] : n \in 0..MaxTopK}

InitMrr ==
    /\ user_top_k_recommendations \in RankedLists
    /\ user_testset \in BinaryRows(MrrCols)
    /\ mrr_call = "none"
    /\ mrr_result = Rat(0, 1)

MrrFunc ==
    /\ mrr_call = "none"
    /\ mrr_call' = "_mrr_func"
    /\ mrr_result' = mrr_func(user_top_k_recommendations, user_testset).value
    /\ UNCHANGED <<user_top_k_recommendations, user_testset>>

-----------------------------------------------------------------------------
(* get_precision, precision, get_taxonomy_level_mrr *)

\* numpy broadcasting of two axes of lengths a and b
Broadcastable(a, b) == a = b \/ a = 1 \/ b = 1

\* Element i (1-based) of a vector stretched by broadcasting
Stretch(v, i) == IF Len(v) = 1 THEN v[1] ELSE v[i]

\* pred_y_ui * (train_x_ui != 0): the scores of the columns seen in train,
\* 0 elsewhere
SeenScores(pred_row, train_row) ==
    [i \in 1..Max(Len(pred_row), Len(train_row)) |->
        IF Stretch(train_row, i) # 0 THEN Stretch(pred_row, i) ELSE 0]

\* pred_y_ui * (train_x_ui == 0): the scores of the columns not seen in
\* train, 0 elsewhere
UnseenScores(pred_row, train_row) ==
    [i \in 1..Max(Len(pred_row), Len(train_row)) |->
        IF Stretch(train_row, i) = 0 THEN Stretch(pred_row, i) ELSE 0]

\* np.argsort(v)[::-1]: the 0-based indices in every order that is
\* descending in v (argsort's default quicksort fixes no order among equal
\* values).
RECURSIVE DescendingOrders(_, _)
DescendingOrders(v, indices) ==
    IF indices = {} THEN {<<>>}
    ELSE LET firsts == {i \in indices : \A j \in indices : v[i + 1] >= v[j + 1]}
         IN UNION {{<<i>> \o rest : rest \in DescendingOrders(v, indices \ {i})} :
                     i \in firsts}

ArgsortReversed(v) == DescendingOrders(v, 0..(Len(v) - 1))

\* filter(lambda col_index: col_index not in training_columns, sorted_scores)
RECURSIVE Filter(_, _)
Filter(s, excluded) ==
    IF s = <<>> THEN <<>>
    ELSE IF Head(s) \in excluded THEN Filter(Tail(s), excluded)
         ELSE <<Head(s)>> \o Filter(Tail(s), excluded)

\* Lines 153-155: the recommended columns of one user, for one outcome of
\* argsort.
RecommendedColumns(pred_row, train_row) ==
    LET training_columns == NonZero(SeenScores(pred_row, train_row))
    IN {Filter(sorted_scores, training_columns) :
          sorted_scores \in ArgsortReversed(UnseenScores(pred_row, train_row))}

\* precision(purchased, recommended, k): the numerator
\* len(np.intersect1d(purchased, recommended[:k])); the value is that over k.
PrecisionHits(purchased, recommended, k) ==
    Cardinality(purchased \cap SeqToSet(PySliceTo(recommended, k)))

RECURSIVE SumSeq(_)
SumSeq(s) == IF s = <<>> THEN 0 ELSE Head(s) + SumSeq(Tail(s))

RECURSIVE RatSum(_)
RatSum(s) == IF s = <<>> THEN Rat(0, 1) ELSE RatAdd(Head(s), RatSum(Tail(s)))

\* One choice per row among per-row sets of outcomes: choices[u] is a set.
PerRow(choices) ==
    {f \in [DOMAIN choices -> UNION {choices[u] : u \in DOMAIN choices}] :
        \A u \in DOMAIN choices : f[u] \in choices[u]}

Scores == -1 .. MaxScore

Shapes == {sh \in (1..MaxUsers) \X (1..MaxCols) : sh[1] * sh[2] <= MaxCells}

Matrices(values) == UNION {[1..sh[1] -> [1..sh[2] -> values]] : sh \in Shapes}

Shape(m) == <<Len(m), Len(m[1])>>

InitEval ==
    /\ pred_y \in Matrices(Scores)
    /\ train_x \in Matrices({0, 1})
    /\ test_x \in Matrices({0, 1})
    /\ eval_call = NoCall
    /\ eval_outcome = "none"
    /\ eval_rows_done = 0
    /\ eval_recs = <<>>
    /\ eval_value = Rat(0, 1)

\* get_precision(pred_y, train_x, test_x, k): lines 148-171. The loop runs
\* over the rows of train_x; pred_y[user] or test_x[user] raises IndexError
\* when that matrix has fewer rows, the product of line 153 raises ValueError
\* when the two rows do not broadcast. No shape is compared before the loop.
get_precision(k) ==
    LET users == 1..Len(train_x)
        index_error(u) == u > Len(pred_y) \/ u > Len(test_x)
        value_error(u) == ~Broadcastable(Len(pred_y[u]), Len(train_x[u]))
        failing == {u \in users : index_error(u) \/ value_error(u)}
        first == IF failing = {} THEN Len(train_x) + 1
                 ELSE CHOOSE u \in failing : \A w \in failing : u <= w
        done == 1..(first - 1)
    IN /\ eval_call = NoCall
       /\ eval_call' = [op |-> "get_precision", k |-> k]
       /\ \E recs \in PerRow([u \in done |-> RecommendedColumns(pred_y[u], train_x[u])]) :
            /\ eval_recs' = recs
            /\ eval_value' =
                 IF failing # {} THEN Rat(0, 1)
                 ELSE Rat(SumSeq([u \in done |->
                                    PrecisionHits(NonZero(test_x[u]), recs[u], k)]),
                          k * Len(train_x))
       /\ eval_rows_done' = first - 1
       /\ eval_outcome' = IF failing = {} THEN "returned"
                          ELSE IF index_error(first) THEN "IndexError"
                          ELSE "ValueError"
       /\ UNCHANGED <<pred_y, train_x, test_x>>

\* predictions * (train == 0) over whole matrices: row u (1-based) of the
\* broadcast product
MaskedPredictions(predictions, train_m) ==
    [u \in 1..Max(Len(predictions), Len(train_m)) |->
        UnseenScores(Stretch(predictions, u), Stretch(train_m, u))]

\* get_taxonomy_level_mrr(predictions, train, test, k): lines 192-197. The
\* product raises ValueError when the matrices do not broadcast; zip stops at
\* the shorter of the ranked rows and the test rows; _mrr_func raises
\* IndexError when a ranked column is no column of the test row.
get_taxonomy_level_mrr(k) ==
    LET broadcast == /\ Broadcastable(Len(pred_y), Len(train_x))
                     /\ Broadcastable(Len(pred_y[1]), Len(train_x[1]))
        masked == MaskedPredictions(pred_y, train_x)
        zipped == 1..Min(Len(masked), Len(test_x))
    IN /\ eval_call = NoCall
       /\ eval_call' = [op |-> "get_taxonomy_level_mrr", k |-> k]
       /\ IF ~broadcast
          THEN /\ eval_outcome' = "ValueError"
               /\ eval_rows_done' = 0
               /\ eval_recs' = <<>>
               /\ eval_value' = Rat(0, 1)
          ELSE \E ranked \in PerRow([u \in 1..Len(masked) |-> ArgsortReversed(masked[u])]) :
                 LET top_k_recommendations ==
                         [u \in 1..Len(masked) |-> PySliceTo(ranked[u], k)]
                     per_row == [u \in zipped |->
                                   mrr_func(top_k_recommendations[u], test_x[u])]
                     failing == {u \in zipped : per_row[u].outcome # "returned"}
                     first == IF failing = {} THEN Len(per_row) + 1
                              ELSE CHOOSE u \in failing : \A w \in failing : u <= w
                 IN /\ eval_recs' = top_k_recommendations
                    /\ eval_rows_done' = first - 1
                    /\ eval_outcome' = IF failing = {} THEN "returned" ELSE "IndexError"
                    /\ eval_value' =
                         IF failing # {} THEN Rat(0, 1)
                         ELSE RatDivInt(RatSum([u \in zipped |-> per_row[u].value]),
                                        Len(pred_y))
       /\ UNCHANGED <<pred_y, train_x, test_x>>

GetPrecision == \E k \in 1..MaxTopN : get_precision(k)
GetTaxonomyLevelMrr == \E k \in 1..MaxTopN : get_taxonomy_level_mrr(k)

-----------------------------------------------------------------------------
(* weighted_mrr *)

\* lambdas=[0.5, 0.2, 0.3], in tenths
DefaultLambdas == <<5, 2, 3>>

\* The weights written into line 205, in tenths
ItemsWeight == 5
TagsWeight == 2
CategoriesWeight == 3

Lambdas == [1..3 -> 0..MaxLambda]

InitWeighted ==
    /\ mrr_levels \in [1..3 -> 0..MrrDen]
    /\ w_call = "none"
    /\ w_lambdas = <<>>
    /\ w_result = <<>>

\* weighted_mrr(mrr_items, mrr_tags, mrr_categories, lambdas): line 205. The
\* parameter lambdas is not read.
weighted_mrr(mrr_items, mrr_tags, mrr_categories, lambdas) ==
    /\ w_lambdas' = lambdas
    /\ w_result' = <<ItemsWeight * mrr_items, TagsWeight * mrr_tags,
                     CategoriesWeight * mrr_categories>>
    /\ UNCHANGED mrr_levels

\* A call that passes lambdas, and a call that leaves it out.
WeightedMrr ==
    /\ \E lambdas \in Lambdas :
         weighted_mrr(mrr_levels[1], mrr_levels[2], mrr_levels[3], lambdas)
    /\ w_call' = "lambdas passed"

WeightedMrrDefault ==
    /\ weighted_mrr(mrr_levels[1], mrr_levels[2], mrr_levels[3], DefaultLambdas)
    /\ w_call' = "lambdas omitted"

-----------------------------------------------------------------------------
(* Claims about the splitters *)

InUnitInterval(f) == 0 < Num(f) /\ Num(f) < Den(f)

Ids(s) == {s[i].id : i \in 1..Len(s)}

IsAscending(s) ==
    \A i \in 1..(Len(s) - 1) : s[i].timestamp.ns <= s[i + 1].timestamp.ns

\* floor(n * f) for a fraction f >= 0
Floor(n, f) == (n * Num(f)) \div Den(f)

SortedInput ==
    /\ IsAscending(df_sorted)
    /\ Len(df_sorted) = Len(df)
    /\ SeqToSet(df_sorted) = SeqToSet(df)

C1_TwoWay ==
    (split_call.op = "two_way_split" /\ InUnitInterval(split_call.train_frac)) =>
        LET n == Len(df)
            a == Floor(n, split_call.train_frac)
        IN /\ split_outcome = "returned"
           /\ SortedInput
           /\ train = SubSeq(df_sorted, 1, a)
           /\ test = SubSeq(df_sorted, a + 1, n)
           /\ Ids(train) \cap Ids(test) = {}
           /\ Len(train) + Len(test) = n
           /\ train \o test = df_sorted

C1_ThreeWay ==
    (/\ split_call.op = "three_way_split"
     /\ InUnitInterval(split_call.train_frac)
     /\ InUnitInterval(split_call.val_frac)) =>
        LET n == Len(df)
            a == Floor(n, split_call.train_frac)
            b == Min(n, Floor(n, <<Num(split_call.train_frac) + Num(split_call.val_frac),
                                   Den(split_call.train_frac)>>))
        IN /\ split_outcome = "returned"
           /\ SortedInput
           /\ train = SubSeq(df_sorted, 1, a)
           /\ validation = SubSeq(df_sorted, a + 1, b)
           /\ test = SubSeq(df_sorted, b + 1, n)
           /\ Ids(train) \cap Ids(validation) = {}
           /\ Ids(train) \cap Ids(test) = {}
           /\ Ids(validation) \cap Ids(test) = {}
           /\ Len(train) + Len(validation) + Len(test) = n
           /\ train \o validation \o test = df_sorted

ValidFractions ==
    /\ InUnitInterval(split_call.train_frac)
    /\ split_call.op = "three_way_split" => InUnitInterval(split_call.val_frac)

\* C7: a split called with a fraction outside (0,1), or with fractions that
\* imply a negative-width partition, ends in a validation error and returns
\* no partitions; it never returns overlapping or wrapped-around slices.
C7_InvalidFractionsRejected ==
    (split_call # NoCall /\ ~ValidFractions) =>
        /\ split_outcome = "ValidationError"
        /\ train = <<>> /\ validation = <<>> /\ test = <<>>

-----------------------------------------------------------------------------
(* Claims about the k-fold generator *)

\* C8: generate_k_fold_split_datasets completes for every sequence of draws
\* and returns exactly k triples: no draw finds the candidate val_frac values
\* empty, and every drawn pair has train_frac + val_frac <= 1.
C8_KFoldAlwaysCompletes ==
    /\ kf_pc \in {"idle", "loop", "returned"}
    /\ kf_pc = "returned" => Len(k_folds) = kf_k
    /\ \A i \in 1..Len(kf_ratios) :
         /\ Len(kf_ratios[i]) = 3
         /\ Num(kf_ratios[i][1]) + Num(kf_ratios[i][2]) <= 10

-----------------------------------------------------------------------------
(* Claims about leave-one-out masking *)

\* C5: set_to_zero of a row with at least one nonzero entry returns the row
\* with exactly one previously nonzero column set to 0 and every other column
\* unchanged (a row whose only nonzero entry is column 0 included); a row with
\* no nonzero entry is returned unchanged.
C5_MaskClearsExactlyOneEntry ==
    mask_call # NoCall =>
        IF NonZero(mask_before) # {}
        THEN \E c \in NonZero(mask_before) :
               heap[mask_result] = [mask_before EXCEPT ![c + 1] = 0]
        ELSE heap[mask_result] = mask_before

\* C6: set_to_zero never mutates the caller's row: after the call the array
\* the caller passed holds the values it held before, and a masked result is
\* another array than the caller's.
C6_MaskLeavesCallerRowIntact ==
    mask_call # NoCall =>
        /\ heap[caller_row] = mask_before
        /\ heap[mask_result] # mask_before => mask_result # caller_row

-----------------------------------------------------------------------------
(* Claims about the ranking metrics *)

SameShapes == Shape(pred_y) = Shape(train_x) /\ Shape(train_x) = Shape(test_x)

\* The ranked list holds only columns unseen in row u of train, in an order
\* descending by prediction score.
UnseenDescending(ranked, u) ==
    /\ \A i \in 1..Len(ranked) : train_x[u][ranked[i] + 1] = 0
    /\ \A i \in 1..(Len(ranked) - 1) :
         pred_y[u][ranked[i] + 1] >= pred_y[u][ranked[i + 1] + 1]

\* C2: in get_precision the ranked recommendations of every row hold only
\* columns with train == 0, descending by prediction score (a column with
\* train != 0 is never recommended, whatever its score), and the value is the
\* mean over all rows of |test columns /\ top-k| / k.
C2_PrecisionRanksOnlyUnseen ==
    (eval_call.op = "get_precision" /\ eval_outcome = "returned" /\ SameShapes) =>
        /\ \A u \in 1..Len(train_x) : UnseenDescending(eval_recs[u], u)
        /\ eval_value =
             Rat(SumSeq([u \in 1..Len(train_x) |->
                    Cardinality({c \in SeqToSet(PySliceTo(eval_recs[u], eval_call.k)) :
                                   test_x[u][c + 1] # 0})]),
                 eval_call.k * Len(train_x))

\* 1/(r+1) for the first position r (0-based) of the list that is marked in
\* the test row, 0 when there is none
ReciprocalRank(ranked, testset) ==
    LET hits == {i \in 1..Len(ranked) : testset[ranked[i] + 1] = 1}
    IN IF hits = {} THEN Rat(0, 1)
       ELSE Rat(1, CHOOSE i \in hits : \A j \in hits : i <= j)

\* C3: in get_taxonomy_level_mrr the top-k list of every row is drawn only
\* from the columns with train == 0, descending by prediction score (a column
\* with train != 0 is never in a top-k), and the value is the sum of the rows'
\* reciprocal ranks over the number of rows.
C3_MrrRanksOnlyUnseen ==
    (eval_call.op = "get_taxonomy_level_mrr" /\ eval_outcome = "returned"
        /\ SameShapes) =>
        /\ \A u \in 1..Len(train_x) : UnseenDescending(eval_recs[u], u)
        /\ eval_value =
             RatDivInt(RatSum([u \in 1..Len(train_x) |->
                                 ReciprocalRank(eval_recs[u], test_x[u])]),
                       Len(train_x))

\* C9: when the prediction, train and test matrices differ in row or column
\* count, get_precision and get_taxonomy_level_mrr end in an error before any
\* row's metric is computed, and return no score.
C9_ShapeMismatchRejectedUpFront ==
    (eval_call # NoCall /\ ~SameShapes) =>
        /\ eval_outcome # "returned"
        /\ eval_rows_done = 0

\* C4: _mrr_func of a ranked list of at most k columns and a 0/1 test row
\* returns 1/(r+1) for the smallest 0-based position r whose column is marked
\* in the test row, and 0 when none is; later hits change nothing, so the
\* value is 0 or 1/n with 1 <= n <= k.
C4_MrrIsReciprocalOfFirstHit ==
    mrr_call = "_mrr_func" =>
        /\ mrr_result = ReciprocalRank(user_top_k_recommendations, user_testset)
        /\ mrr_result \in {Rat(0, 1)} \cup {Rat(1, n) : n \in 1..MaxTopK}

\* A list whose first hit is not at the front and that has a later hit.
C4_Witness ==
    /\ mrr_call = "_mrr_func"
    /\ mrr_result = Rat(1, 2)
    /\ Cardinality({i \in 1..Len(user_top_k_recommendations) :
                      user_testset[user_top_k_recommendations[i] + 1] = 1}) >= 2

-----------------------------------------------------------------------------
(* Claims about the weighted MRR *)

\* C10: weighted_mrr returns (w_items * mrr_items, w_tags * mrr_tags,
\* w_categories * mrr_categories) for the weights the caller passes, and for
\* (0.5, 0.2, 0.3) when the argument is left out.
C10_WeightsArgumentIsUsed ==
    w_call # "none" =>
        w_result = <<w_lambdas[1] * mrr_levels[1], w_lambdas[2] * mrr_levels[2],
                     w_lambdas[3] * mrr_levels[3]>>

-----------------------------------------------------------------------------
(* Specifications *)

vars == <<splitVars, kfoldVars, maskVars, mrrVars, evalVars, weightedVars>>

\* The groups at rest: the state before any of their functions is called.
IdleSplit ==
    /\ df = <<>>
    /\ split_call = NoCall
    /\ df_sorted = <<>>
    /\ train = <<>>
    /\ validation = <<>>
    /\ test = <<>>
    /\ split_outcome = "none"

IdleMask ==
    /\ heap = [r \in {TheRow} |-> <<0>>]
    /\ caller_row = TheRow
    /\ mask_call = NoCall
    /\ mask_before = <<>>
    /\ mask_result = 0

IdleMrr ==
    /\ user_top_k_recommendations = <<>>
    /\ user_testset = <<>>
    /\ mrr_call = "none"
    /\ mrr_result = Rat(0, 1)

IdleEval ==
    /\ pred_y = <<>>
    /\ train_x = <<>>
    /\ test_x = <<>>
    /\ eval_call = NoCall
    /\ eval_outcome = "none"
    /\ eval_rows_done = 0
    /\ eval_recs = <<>>
    /\ eval_value = Rat(0, 1)

IdleWeighted ==
    /\ mrr_levels = <<0, 0, 0>>
    /\ w_call = "none"
    /\ w_lambdas = <<>>
    /\ w_result = <<>>

SplitStep(A) == A /\ UNCHANGED <<kfoldVars, maskVars, mrrVars, evalVars, weightedVars>>

SplitTwoWay == SplitStep(TwoWaySplit)
SplitThreeWay == SplitStep(ThreeWaySplit)

StartSplit ==
    InitSplit /\ InitKFoldIdle /\ IdleMask /\ IdleMrr /\ IdleEval /\ IdleWeighted

NextSplit == SplitTwoWay \/ SplitThreeWay

SpecSplit == StartSplit /\ [][NextSplit]_vars

KFoldStep(A) ==
    /\ A
    /\ UNCHANGED <<split_call, df_sorted, train, validation, test, split_outcome>>
    /\ UNCHANGED <<maskVars, mrrVars, evalVars, weightedVars>>

KFoldStart == KFoldStep(KFoldCall)
KFoldLoop == KFoldStep(KFoldIteration)
KFoldEnd == KFoldStep(KFoldReturn)

StartKFold ==
    InitSplit /\ InitKFoldIdle /\ IdleMask /\ IdleMrr /\ IdleEval /\ IdleWeighted

NextKFold == KFoldStart \/ KFoldLoop \/ KFoldEnd

SpecKFold == StartKFold /\ [][NextKFold]_vars

MaskStep == SetToZero /\ UNCHANGED <<splitVars, kfoldVars, mrrVars, evalVars, weightedVars>>

StartMask ==
    IdleSplit /\ InitKFoldIdle /\ InitMask /\ IdleMrr /\ IdleEval /\ IdleWeighted

NextMask == MaskStep

SpecMask == StartMask /\ [][NextMask]_vars

MrrStep == MrrFunc /\ UNCHANGED <<splitVars, kfoldVars, maskVars, evalVars, weightedVars>>

StartMrr ==
    IdleSplit /\ InitKFoldIdle /\ IdleMask /\ InitMrr /\ IdleEval /\ IdleWeighted

NextMrr == MrrStep

SpecMrr == StartMrr /\ [][NextMrr]_vars

EvalStep(A) == A /\ UNCHANGED <<splitVars, kfoldVars, maskVars, mrrVars, weightedVars>>

EvalPrecision == EvalStep(GetPrecision)
EvalMrr == EvalStep(GetTaxonomyLevelMrr)

StartEval ==
    IdleSplit /\ InitKFoldIdle /\ IdleMask /\ IdleMrr /\ InitEval /\ IdleWeighted

NextEval == EvalPrecision \/ EvalMrr

SpecEval == StartEval /\ [][NextEval]_vars

WeightedStep(A) == A /\ UNCHANGED <<splitVars, kfoldVars, maskVars, mrrVars, evalVars>>

WeightedPassed == WeightedStep(WeightedMrr)
WeightedOmitted == WeightedStep(WeightedMrrDefault)

StartWeighted ==
    IdleSplit /\ InitKFoldIdle /\ IdleMask /\ IdleMrr /\ IdleEval /\ InitWeighted

NextWeighted == WeightedPassed \/ WeightedOmitted

SpecWeighted == StartWeighted /\ [][NextWeighted]_vars

====
